---- MODULE Spec2Model ----
(***************************************************************************)
(* Model of the IBC relay keeper (Keeper.Send, Keeper.Receive,             *)
(* receivePacket, receiveReceipt) and of the gas-accounted KVStore that    *)
(* store/gas/store_test.go exercises.                                      *)
(***************************************************************************)
EXTENDS Integers, Sequences, FiniteSets, TLC

VARIABLES
    ingress,    \* [Channels -> Nat]: ingress sequence of every channel
    egress,     \* [Channels -> Seq(Datagram)]: egress queue of every channel
    connEst,    \* [Chains -> BOOLEAN]: connection established flags
    kv,         \* [Keys -> Vals]: module state the ReceiveHandler writes
    call,       \* the last relay call: inputs, handler behaviour and outcome
    dispatched, \* [Channels -> Seq(Nat)]: history of the Proof.Sequence of
                \* every Receive that invoked the handler, in call order
    gmem,       \* [StoreKeys -> bytes]: the store under the gas store
    gmeter,     \* the GasMeter: [consumed, limit]
    giter,      \* the iterator opened on the gas store, if any
    gcall,      \* the last gas store call: operation, arguments and outcome
    nops,       \* number of calls counted towards MaxOps or MaxTx
    script      \* how far the calls so far follow TestGasKVStoreBasic

relayVars == <<ingress, egress, connEst, kv, call, dispatched>>

gasVars == <<gmem, gmeter, giter, gcall, nops, script>>

vars == <<relayVars, gasVars>>

(***************************************************************************)
(* Bounds of the model.                                                    *)
(***************************************************************************)
\* Receive is not offered once a channel's ingress sequence reached MaxSeq.
MaxSeq == 2
\* Send / a receipt push is not offered once the queues hold MaxQueue datagrams.
MaxQueue == 2
\* No gas store call is offered after MaxOps calls.
MaxOps == 5
\* No relay call of a depth-bounded specification is offered after MaxTx calls.
MaxTx == 2

(***************************************************************************)
(* Data model.                                                             *)
(***************************************************************************)
PacketType == "Packet"
ReceiptType == "Receipt"
OtherType == "Other"
DatagramTypes == {PacketType, ReceiptType, OtherType}

\* ctx.ChainID() of the chain the keeper runs on.
ChainID == "A"
Chains == {"A", "B"}

Channels == DatagramTypes \X Chains

\* A nil Payload (the handler returned no receipt).
Nil == [ty |-> "nil", body |-> 0]

Payloads == [ty : DatagramTypes, body : {1}]

\* payload.DatagramType()
DatagramType(payload) == payload.ty

Headers == [SrcChain : Chains, DestChain : Chains]

\* The keys of the handlers' own state.
Keys == {"k1", "k2"}
\* The keys of a channel in the same store (section 6): its egress queue and
\* its ingress sequence.  A context gives access to the whole store, so a
\* handler can write these too, for the channel its datagram came on.
QueueKey == "queue"
SeqKey == "seq"
ChannelKeys == {QueueKey, SeqKey}
\* kv holds NoVal for a key nothing was written to, Written otherwise.
NoVal == "none"
Written == "written"

\* sdk.Result as far as the keeper looks at it: IsOK() or not.
ResOK == "OK"
ResHandlerFail == "HandlerFail"

IsOK(result) == result = ResOK

\* The failure results built by the keeper.
ErrConnNotEstablished == "ConnNotEstablished"
ErrChainMismatch == "ChainMismatch"
ErrInvalidSequence == "InvalidSequence"
ErrUnknownDatagramType == "UnknownDatagramType"

\* Outcome of a call that ended in panic(...).
Panic == "panic"

(***************************************************************************)
(* Channel and connection runtime: the views over the store the keeper     *)
(* reads and writes through.  st is the record of the persisted relay      *)
(* state, [ingress, egress, kv].                                           *)
(***************************************************************************)
channelRuntime(ty, chain) == <<ty, chain>>

connEstablished(conn, chain) == conn[chain]

getIngressSequence(st, r) == st.ingress[r]

setIngressSequence(st, r, seq) == [st EXCEPT !.ingress[r] = seq]

pushEgressDatagram(st, r, data) == [st EXCEPT !.egress[r] = Append(@, data)]

\* Mutant of InverseDirection: only the source is replaced.
InverseDirectionSrcOnly(header) ==
    [SrcChain |-> header.DestChain, DestChain |-> header.DestChain]

\* Header.InverseDirection()
InverseDirection(header) ==
    [SrcChain |-> header.DestChain, DestChain |-> header.SrcChain]

\* ctx.CacheContext(): the handler's writes are buffered in a cache over the
\* outer state; write() copies every buffered key to the outer state.
CacheWrite(outer, cache) ==
    [k \in Keys |-> IF k \in DOMAIN cache THEN cache[k] ELSE outer[k]]

\* What a handler buffers under the keys of channel r when it writes them
\* through a CacheContext opened on the state view: the queue with a
\* datagram of its own appended (a packet towards r's chain), the sequence
\* advanced by one.
HandlerDatagram(r) ==
    [Header |-> [SrcChain |-> ChainID, DestChain |-> r[2]],
     Payload |-> [ty |-> PacketType, body |-> 1]]

BufferedQueue(view, r) == Append(view.egress[r], HandlerDatagram(r))

BufferedSequence(view, r) == view.ingress[r] + 1

\* Mutant of CacheWriteChannel: write() leaves the channel's keys as the
\* outer state holds them.
CacheWriteChannelKeepingOuter(outer, view, r, cache) == outer

\* write() for the keys of channel r: every buffered key is copied to the
\* outer state, over what the outer state holds.
CacheWriteChannel(outer, view, r, cache) ==
    [outer EXCEPT
        !.egress[r] = IF QueueKey \in DOMAIN cache
                      THEN BufferedQueue(view, r) ELSE @,
        !.ingress[r] = IF SeqKey \in DOMAIN cache
                       THEN BufferedSequence(view, r) ELSE @]

\* What a call gives back: the state it leaves, its result (or Panic), and
\* whether the handler was invoked.
Ret(st, res, invoked) == [st |-> st, res |-> res, invoked |-> invoked]

(***************************************************************************)
(* Keeper.Send.  h is the result the SendHandler returns for msg.Payload.  *)
(***************************************************************************)
\* Mutant of SendDatagram: the header's chains the wrong way round.
SendDatagramSwapped(msg) ==
    [Header |-> [SrcChain |-> msg.DestChain, DestChain |-> ChainID],
     Payload |-> msg.Payload]

SendDatagram(msg) ==
    [Header |-> [SrcChain |-> ChainID, DestChain |-> msg.DestChain],
     Payload |-> msg.Payload]

Send(h, st, msg) ==
    LET payload == msg.Payload
        r == channelRuntime(DatagramType(payload), msg.DestChain)
        result == h
    IN  IF ~IsOK(result)
        THEN Ret(st, result, TRUE)
        ELSE Ret(pushEgressDatagram(st, r, SendDatagram(msg)), result, TRUE)

(***************************************************************************)
(* receivePacket.  h is what the ReceiveHandler does when invoked:         *)
(* h.writes are its writes through the context it is given, h.receipt the  *)
(* payload it returns (Nil for none), h.res its result.                    *)
(***************************************************************************)
\* Mutant of ReceiptDatagram: the inbound header is kept as it is.
ReceiptDatagramSameDirection(data, receipt) ==
    [Header |-> data.Header, Payload |-> receipt]

ReceiptDatagram(data, receipt) ==
    [Header |-> InverseDirection(data.Header), Payload |-> receipt]

\* Mutant of PushReceipt: the receipt goes to the queue of the channel of
\* its own type towards the chain the packet's header names as its source.
PushReceiptOnReceiptChannel(st, r, data, receipt) ==
    IF receipt # Nil
    THEN pushEgressDatagram(st,
             channelRuntime(DatagramType(receipt), data.Header.SrcChain),
             ReceiptDatagram(data, receipt))
    ELSE st

PushReceipt(st, r, data, receipt) ==
    IF receipt # Nil
    THEN pushEgressDatagram(st, r, ReceiptDatagram(data, receipt))
    ELSE st

\* Mutant of CommitCache: write() is reached on a failure too.
CommitCacheAlways(st, res, cache) ==
    [st EXCEPT !.kv = CacheWrite(st.kv, cache)]

\* Mutant of CommitCache: write() is never called.
CommitCacheNever(st, res, cache) == st

CommitCache(st, res, cache) ==
    IF ~IsOK(res) THEN st ELSE [st EXCEPT !.kv = CacheWrite(st.kv, cache)]

\* write() on the keys of the channel, reached on a success only.
CommitChannel(st, view, r, res, cache) ==
    IF ~IsOK(res) THEN st ELSE CacheWriteChannel(st, view, r, cache)

\* The CacheContext is opened on st, the state the ingress sequence write
\* left; the receipt is pushed on the outer state; write() follows.
receivePacket(h, st, r, data) ==
    LET cache == h.writes
        receipt == h.receipt
        res == h.res
        st1 == PushReceipt(st, r, data, receipt)
    IN  Ret(CommitChannel(CommitCache(st1, res, cache), st, r, res, cache),
            IF ~IsOK(res) THEN ResHandlerFail ELSE ResOK, TRUE)

(***************************************************************************)
(* receiveReceipt: the handler runs on the outer context; a failure or a   *)
(* returned receipt ends in panic.                                         *)
(***************************************************************************)
\* Mutant of ReceiptOutcome: a failing receipt handler's result is returned.
ReceiptOutcomeReturned(res, receipt) ==
    IF ~IsOK(res) THEN ResHandlerFail
    ELSE IF receipt # Nil THEN ResHandlerFail
    ELSE ResOK

ReceiptOutcome(res, receipt) ==
    IF ~IsOK(res) THEN Panic
    ELSE IF receipt # Nil THEN Panic
    ELSE ResOK

receiveReceipt(h, st, r, data) ==
    LET st1 == [st EXCEPT !.kv = CacheWrite(st.kv, h.writes)]
    IN  Ret(st1, ReceiptOutcome(h.res, h.receipt), TRUE)

(***************************************************************************)
(* Keeper.Receive.                                                         *)
(***************************************************************************)
\* Mutant of NextSequence: the sequence is stored back unchanged.
NextSequenceSame(seq) == seq

NextSequence(seq) == seq + 1

\* Mutant of SequenceMismatch: only a sequence behind the counter is refused.
SequenceMismatchBehind(seq, prf) == seq > prf.Sequence

SequenceMismatch(seq, prf) == seq # prf.Sequence

\* Mutant of Preconditions: the chain is checked before the connection.
PreconditionsChainFirst(conn, st, msg) ==
    LET chr == channelRuntime(DatagramType(msg.Datagram.Payload), msg.SrcChain)
        destChain == msg.Datagram.Header.DestChain
    IN  IF ChainID # destChain THEN ErrChainMismatch
        ELSE IF ~connEstablished(conn, msg.SrcChain)
             THEN ErrConnNotEstablished
        ELSE IF getIngressSequence(st, chr) # msg.Proof.Sequence
             THEN ErrInvalidSequence
        ELSE ResOK

\* Mutant of Preconditions: the destination chain is not checked.
PreconditionsNoChainCheck(conn, st, msg) ==
    LET chr == channelRuntime(DatagramType(msg.Datagram.Payload), msg.SrcChain)
    IN  IF ~connEstablished(conn, msg.SrcChain) THEN ErrConnNotEstablished
        ELSE IF SequenceMismatch(getIngressSequence(st, chr), msg.Proof)
             THEN ErrInvalidSequence
        ELSE ResOK

\* The three preconditions in the order the code checks them: the first
\* failing one, or ResOK when all pass.
Preconditions(conn, st, msg) ==
    LET chr == channelRuntime(DatagramType(msg.Datagram.Payload), msg.SrcChain)
        destChain == msg.Datagram.Header.DestChain
    IN  IF ~connEstablished(conn, msg.SrcChain) THEN ErrConnNotEstablished
        ELSE IF ChainID # destChain THEN ErrChainMismatch
        ELSE IF SequenceMismatch(getIngressSequence(st, chr), msg.Proof)
             THEN ErrInvalidSequence
        ELSE ResOK

\* Mutant of Dispatch: a handler failure also takes back the ingress sequence.
DispatchRevertingSequence(h, st, chr, data) ==
    LET ty == DatagramType(data.Payload)
        out == CASE ty = PacketType -> receivePacket(h, st, chr, data)
                 [] ty = ReceiptType -> receiveReceipt(h, st, chr, data)
                 [] OTHER -> Ret(st, ErrUnknownDatagramType, FALSE)
    IN  IF out.res = ResHandlerFail
        THEN Ret([out.st EXCEPT !.ingress[chr] = @ - 1], out.res, out.invoked)
        ELSE out

Dispatch(h, st, chr, data) ==
    LET ty == DatagramType(data.Payload)
    IN  CASE ty = PacketType -> receivePacket(h, st, chr, data)
          [] ty = ReceiptType -> receiveReceipt(h, st, chr, data)
          [] OTHER -> Ret(st, ErrUnknownDatagramType, FALSE)

\* Mutant of Receive: an unknown datagram type is refused before the ingress
\* sequence is written.
ReceiveTypeFirst(h, conn, st, msg) ==
    LET data == msg.Datagram
        ty == DatagramType(data.Payload)
        chr == channelRuntime(ty, msg.SrcChain)
        pre == Preconditions(conn, st, msg)
    IN  IF pre # ResOK
        THEN Ret(st, pre, FALSE)
        ELSE IF ty \notin {PacketType, ReceiptType}
             THEN Ret(st, ErrUnknownDatagramType, FALSE)
        ELSE LET seq == getIngressSequence(st, chr)
             IN  Dispatch(h, setIngressSequence(st, chr, NextSequence(seq)),
                          chr, data)

Receive(h, conn, st, msg) ==
    LET data == msg.Datagram
        ty == DatagramType(data.Payload)
        chr == channelRuntime(ty, msg.SrcChain)
        pre == Preconditions(conn, st, msg)
    IN  IF pre # ResOK
        THEN Ret(st, pre, FALSE)
        ELSE LET seq == getIngressSequence(st, chr)
             IN  Dispatch(h, setIngressSequence(st, chr, NextSequence(seq)),
                          chr, data)

(***************************************************************************)
(* Gas-accounted store: byte strings, the test's key and value formats.    *)
(***************************************************************************)
\* bz("key"), bz("value"): the bytes of the two prefixes.
KeyPrefix == <<107, 101, 121>>
ValPrefix == <<118, 97, 108, 117, 101>>

\* fmt.Sprintf("%0.8d", i): i in decimal, zero-padded to 8 digits.
Pad8(i) == [j \in 1..8 |-> 48 + ((i \div (10 ^ (8 - j))) % 10)]

keyFmt(i) == KeyPrefix \o Pad8(i)
valFmt(i) == ValPrefix \o Pad8(i)

\* A nil []byte: what Get returns for a key that is not stored.
NilBytes == <<>>

StoreKeys == {keyFmt(1), keyFmt(2)}
StoreVals == {valFmt(1), valFmt(2)}

\* bytes.Compare(a, b) < 0
RECURSIVE BytesLess(_, _)
BytesLess(a, b) ==
    IF b = <<>> THEN FALSE
    ELSE IF a = <<>> THEN TRUE
    ELSE IF Head(a) # Head(b) THEN Head(a) < Head(b)
    ELSE BytesLess(Tail(a), Tail(b))

(***************************************************************************)
(* GasConfig.  The fields are those of section 6; gas.Store charges them   *)
(* as section 4.4 says.  KVGasConfig(), the configuration the tests open   *)
(* the store with, is defined outside the sources at hand: what is known   *)
(* of it is what the tests assert.  GasConfigs is the set of               *)
(* configurations, on a grid of costs, that every test of store_test.go    *)
(* accepts; the tests never call Has, so HasCost is left open by them.     *)
(***************************************************************************)
FlatCosts == {5, 10, 15, 20}
PerByteCosts == {1, 2, 5, 10}

GasConfigGrid ==
    [HasCost : FlatCosts, DeleteCost : FlatCosts, ReadCostFlat : FlatCosts,
     ReadCostPerByte : PerByteCosts, WriteCostFlat : FlatCosts,
     WriteCostPerByte : PerByteCosts, IterNextCostFlat : FlatCosts]

\* len(keyFmt(i)) and len(valFmt(i)): "key%0.8d" and "value%0.8d".
TestKeyLen == Len(KeyPrefix) + 8
TestValLen == Len(ValPrefix) + 8

\* A Set of a test key and a test value.
TestSetCost(cfg) ==
    cfg.WriteCostFlat + cfg.WriteCostPerByte * (TestKeyLen + TestValLen)

\* A step of the iterator on a test value.
TestSeekCost(cfg) == cfg.ReadCostPerByte * TestValLen + cfg.IterNextCostFlat

\* TestGasKVStoreBasic: Get (miss), Set, Get, Delete, Get (miss).
BasicTestGas(cfg) ==
    3 * cfg.ReadCostFlat + cfg.ReadCostPerByte * TestValLen
    + TestSetCost(cfg) + cfg.DeleteCost

\* TestGasKVStoreIterator: two Gets (miss), two Sets, Iterator, Next, Next.
IteratorTestGas(cfg) ==
    2 * cfg.ReadCostFlat + 2 * TestSetCost(cfg) + 3 * TestSeekCost(cfg)

\* TestGasKVStoreOutOfGasIterator: Set, Iterator and Next return.
OutOfGasIteratorTestGas(cfg) == TestSetCost(cfg) + 2 * TestSeekCost(cfg)

\* The totals and the limit the tests assert.
BasicTestTotal == 193
IteratorTestTotal == 384
OutOfGasIteratorLimit == 200

GasConfigs ==
    {cfg \in GasConfigGrid :
        /\ BasicTestGas(cfg) = BasicTestTotal
        /\ IteratorTestGas(cfg) = IteratorTestTotal
        /\ OutOfGasIteratorTestGas(cfg) <= OutOfGasIteratorLimit}

KVGasConfig == CHOOSE cfg \in GasConfigs : TRUE

HasCost == KVGasConfig.HasCost
DeleteCost == KVGasConfig.DeleteCost
ReadCostFlat == KVGasConfig.ReadCostFlat
ReadCostPerByte == KVGasConfig.ReadCostPerByte
WriteCostFlat == KVGasConfig.WriteCostFlat
WriteCostPerByte == KVGasConfig.WriteCostPerByte
IterNextCostFlat == KVGasConfig.IterNextCostFlat

(***************************************************************************)
(* GasMeter.  ConsumeGas adds the amount and panics when the total exceeds *)
(* the limit: the meter is out of gas exactly when consumed > limit.       *)
(***************************************************************************)
NewGasMeter(limit) == [consumed |-> 0, limit |-> limit]

\* Mutant of ConsumeGas: the total is capped at the limit instead of exceeding it.
ConsumeGasCapped(m, amount) ==
    [m EXCEPT !.consumed = IF @ + amount > m.limit THEN m.limit ELSE @ + amount]

ConsumeGas(m, amount) == [m EXCEPT !.consumed = @ + amount]

OutOfGas(m) == m.consumed > m.limit

GasConsumed(m) == m.consumed

\* The ConsumeGas calls of one store operation, in order; the first that
\* panics ends the operation.
RECURSIVE Charge(_, _)
Charge(m, amounts) ==
    IF amounts = <<>> THEN m
    ELSE LET m1 == ConsumeGas(m, Head(amounts))
         IN  IF OutOfGas(m1) THEN m1 ELSE Charge(m1, Tail(amounts))

\* How a gas store call ends.
Returned == "returned"
PanicOutOfGas == "panic: out of gas"
PanicInvalidIterator == "panic: invalid iterator"

\* Outcome of a gas store call: the store, meter and iterator it leaves,
\* what it returns, and how it ended.
GasRet(mem, m, it, ret, end) ==
    [mem |-> mem, meter |-> m, iter |-> it, ret |-> ret, end |-> end]

(***************************************************************************)
(* gas.Store: Get, Set, Delete, Has.  g is [mem, meter, iter].             *)
(***************************************************************************)
GasGet(g, key) ==
    LET m1 == ConsumeGas(g.meter, ReadCostFlat)
        value == g.mem[key]
        m2 == ConsumeGas(m1, ReadCostPerByte * Len(value))
    IN  IF OutOfGas(m1) THEN GasRet(g.mem, m1, g.iter, NilBytes, PanicOutOfGas)
        ELSE IF OutOfGas(m2)
             THEN GasRet(g.mem, m2, g.iter, NilBytes, PanicOutOfGas)
        ELSE GasRet(g.mem, m2, g.iter, value, Returned)

\* The charge of a Set: the flat write cost, then the per-byte write cost of
\* the key and the value.
SetCharge(key, value) ==
    <<WriteCostFlat, WriteCostPerByte * (Len(key) + Len(value))>>

\* Mutant of GasSet: the store is written before the gas is charged.
GasSetWriteFirst(g, key, value) ==
    LET m == Charge(g.meter, SetCharge(key, value))
    IN  GasRet([g.mem EXCEPT ![key] = value], m, g.iter, NilBytes,
               IF OutOfGas(m) THEN PanicOutOfGas ELSE Returned)

\* Mutant of GasSet: the bytes of the key are not charged.
GasSetValueOnly(g, key, value) ==
    LET m == Charge(g.meter, <<WriteCostFlat, WriteCostPerByte * Len(value)>>)
    IN  IF OutOfGas(m) THEN GasRet(g.mem, m, g.iter, NilBytes, PanicOutOfGas)
        ELSE GasRet([g.mem EXCEPT ![key] = value], m, g.iter, NilBytes,
                    Returned)

GasSet(g, key, value) ==
    LET m == Charge(g.meter, SetCharge(key, value))
    IN  IF OutOfGas(m) THEN GasRet(g.mem, m, g.iter, NilBytes, PanicOutOfGas)
        ELSE GasRet([g.mem EXCEPT ![key] = value], m, g.iter, NilBytes,
                    Returned)

GasDelete(g, key) ==
    LET m == ConsumeGas(g.meter, DeleteCost)
    IN  IF OutOfGas(m) THEN GasRet(g.mem, m, g.iter, NilBytes, PanicOutOfGas)
        ELSE GasRet([g.mem EXCEPT ![key] = NilBytes], m, g.iter, NilBytes,
                    Returned)

GasHas(g, key) ==
    LET m == ConsumeGas(g.meter, HasCost)
    IN  IF OutOfGas(m) THEN GasRet(g.mem, m, g.iter, FALSE, PanicOutOfGas)
        ELSE GasRet(g.mem, m, g.iter, g.mem[key] # NilBytes, Returned)

(***************************************************************************)
(* gasIterator over the whole range.  An iterator is the ascending list of *)
(* the keys stored when it was opened and a position in it; it is valid    *)
(* while the position is inside the list.                                  *)
(***************************************************************************)
NoIter == [open |-> FALSE, keys |-> <<>>, pos |-> 0]

\* Mutant of SortedKeys: the keys in descending order.
RECURSIVE SortedKeysDescending(_)
SortedKeysDescending(S) ==
    IF S = {} THEN <<>>
    ELSE LET most == CHOOSE k \in S : \A o \in S \ {k} : BytesLess(o, k)
         IN  <<most>> \o SortedKeysDescending(S \ {most})

RECURSIVE SortedKeys(_)
SortedKeys(S) ==
    IF S = {} THEN <<>>
    ELSE LET least == CHOOSE k \in S : \A o \in S \ {k} : BytesLess(k, o)
         IN  <<least>> \o SortedKeys(S \ {least})

IterValid(it) == it.pos <= Len(it.keys)

\* consumeSeekGas: the per-byte read cost of the value at the position, then
\* the flat cost of a step.
consumeSeekGas(g, it) ==
    Charge(g.meter, <<ReadCostPerByte * Len(g.mem[it.keys[it.pos]]),
                      IterNextCostFlat>>)

GasIterator(g) ==
    LET it == [open |-> TRUE,
               keys |-> SortedKeys({k \in StoreKeys : g.mem[k] # NilBytes}),
               pos |-> 1]
    IN  IF ~IterValid(it) THEN GasRet(g.mem, g.meter, it, NilBytes, Returned)
        ELSE LET m == consumeSeekGas(g, it)
             IN  IF OutOfGas(m)
                 THEN GasRet(g.mem, m, g.iter, NilBytes, PanicOutOfGas)
                 ELSE GasRet(g.mem, m, it, NilBytes, Returned)

IterNext(g) ==
    LET it == g.iter
    IN  IF ~IterValid(it)
        THEN GasRet(g.mem, g.meter, it, NilBytes, PanicInvalidIterator)
        ELSE LET m == consumeSeekGas(g, it)
             IN  IF OutOfGas(m)
                 THEN GasRet(g.mem, m, it, NilBytes, PanicOutOfGas)
                 ELSE GasRet(g.mem, m, [it EXCEPT !.pos = @ + 1], NilBytes,
                             Returned)

IterKey(g) ==
    IF ~IterValid(g.iter)
    THEN GasRet(g.mem, g.meter, g.iter, NilBytes, PanicInvalidIterator)
    ELSE GasRet(g.mem, g.meter, g.iter, g.iter.keys[g.iter.pos], Returned)

IterValue(g) ==
    IF ~IterValid(g.iter)
    THEN GasRet(g.mem, g.meter, g.iter, NilBytes, PanicInvalidIterator)
    ELSE GasRet(g.mem, g.meter, g.iter, g.mem[g.iter.keys[g.iter.pos]],
                Returned)

IterClose(g) == GasRet(g.mem, g.meter, NoIter, NilBytes, Returned)

(***************************************************************************)
(* The relay inside a metered transaction (sections 5 and 7.3).  The store  *)
(* handed to Send and Receive charges the transaction's GasMeter on every   *)
(* access, before the access takes effect.  The keeper recovers nothing: a  *)
(* charge above the limit panics out of Send or Receive, the enclosing      *)
(* transaction aborts, and every write made in it is unwound.  A call is    *)
(* the list of its store accesses, in the order the code makes them.        *)
(*                                                                         *)
(* What an access costs depends on the encoding of the value it reads or    *)
(* writes, which is left open; each access costs something.  Gas is counted *)
(* here in accesses: a meter of limit n pays for n accesses and panics on   *)
(* the next, and write() is counted as an access like the others.           *)
(***************************************************************************)
\* What one store access consumes.
AccessGas == 1

\* A store access: its kind, the channel it is on, and what it writes.
Access(kind, r, arg) == [kind |-> kind, r |-> r, arg |-> arg]

NoChannel == <<NoVal, NoVal>>

ReadAccess == Access("read", NoChannel, NoVal)

\* The state an access leaves in the transaction's store.  A write through
\* the CacheContext stays in the cache until write() commits it.
Apply(st, a) ==
    CASE a.kind = "setIngress" -> setIngressSequence(st, a.r, a.arg)
      [] a.kind = "push" -> pushEgressDatagram(st, a.r, a.arg)
      [] a.kind = "set" -> [st EXCEPT !.kv[a.arg] = Written]
      [] a.kind = "commit" -> [st EXCEPT !.kv = CacheWrite(st.kv, a.arg)]
      [] OTHER -> st

\* Mutant of Unwind: the writes made before the abort are kept.
UnwindKeepingWrites(before, written) == written

\* The store after a transaction aborted out of gas: the store as it was
\* before the transaction, whatever was written in it.
Unwind(before, written) == before

\* Runs the accesses of a transaction begun in the state before, in order.
\* When a charge exceeds the limit the transaction is unwound.
RECURSIVE RunMetered(_, _, _, _, _)
RunMetered(before, st, m, accesses, done) ==
    IF accesses = <<>> THEN [st |-> st, meter |-> m, done |-> done]
    ELSE LET m1 == ConsumeGas(m, AccessGas)
         IN  IF OutOfGas(m1)
             THEN [st |-> Unwind(before, st), meter |-> m1, done |-> done]
             ELSE RunMetered(before, Apply(st, Head(accesses)), m1,
                             Tail(accesses), done + 1)

\* The handler writes its keys one access each; the order shown is one of
\* the orders it may use, and an abort unwinds the writes of any.
WriteOrder == <<"k1", "k2">>

HandlerWrites(h, kind) ==
    LET keys == SelectSeq(WriteOrder, LAMBDA k : k \in DOMAIN h.writes)
    IN  [i \in 1..Len(keys) |-> Access(kind, NoChannel, keys[i])]

\* Keeper.Send: the handler is given no context; a success is followed by
\* the push.
SendAccesses(h, msg) ==
    LET r == channelRuntime(DatagramType(msg.Payload), msg.DestChain)
    IN  IF ~IsOK(h) THEN <<>>
        ELSE <<Access("push", r, SendDatagram(msg))>>

\* A transaction that calls Send.
SendGas(h, st, m, msg) ==
    LET run == RunMetered(st, st, m, SendAccesses(h, msg), 0)
    IN  [st |-> run.st, meter |-> run.meter, invoked |-> TRUE,
         res |-> IF OutOfGas(run.meter) THEN PanicOutOfGas
                 ELSE Send(h, st, msg).res]

\* receivePacket: the handler writes through the CacheContext, then the
\* receipt is pushed on the outer store, then write() on a success.
PacketAccesses(h, r, data) ==
    HandlerWrites(h, "cacheSet")
    \o (IF h.receipt # Nil
        THEN <<Access("push", r, ReceiptDatagram(data, h.receipt))>>
        ELSE <<>>)
    \o (IF IsOK(h.res) THEN <<Access("commit", NoChannel, h.writes)>>
        ELSE <<>>)

\* receiveReceipt: the handler writes through the outer context.
ReceiptAccesses(h, r, data) == HandlerWrites(h, "set")

DispatchAccesses(h, chr, data) ==
    LET ty == DatagramType(data.Payload)
    IN  CASE ty = PacketType -> PacketAccesses(h, chr, data)
          [] ty = ReceiptType -> ReceiptAccesses(h, chr, data)
          [] OTHER -> <<>>

\* Keeper.Receive: connEstablished reads the connection flag; when it holds
\* and the chain matches, getIngressSequence reads the counter; when that
\* matches, setIngressSequence writes it and the datagram is dispatched.
ReceiveAccesses(h, conn, st, msg) ==
    LET data == msg.Datagram
        chr == channelRuntime(DatagramType(data.Payload), msg.SrcChain)
        pre == Preconditions(conn, st, msg)
        seq == getIngressSequence(st, chr)
    IN  IF pre \in {ErrConnNotEstablished, ErrChainMismatch}
        THEN <<ReadAccess>>
        ELSE IF pre = ErrInvalidSequence THEN <<ReadAccess, ReadAccess>>
        ELSE <<ReadAccess, ReadAccess,
               Access("setIngress", chr, NextSequence(seq))>>
             \o DispatchAccesses(h, chr, data)

\* The accesses of a Receive up to and including the ingress sequence write.
UpToIngressWrite == 3

\* A transaction that calls Receive.  The handler is invoked when the
\* accesses before the dispatch were paid for.
ReceiveGas(h, conn, st, m, msg) ==
    LET run == RunMetered(st, st, m, ReceiveAccesses(h, conn, st, msg), 0)
        plain == Receive(h, conn, st, msg)
    IN  [st |-> run.st, meter |-> run.meter,
         invoked |-> plain.invoked /\ run.done >= UpToIngressWrite,
         res |-> IF OutOfGas(run.meter) THEN PanicOutOfGas ELSE plain.res]

(***************************************************************************)
(* The relay as a state machine: every step is one whole Send or Receive   *)
(* call on inputs drawn from the sets below.                               *)
(***************************************************************************)
RelayState == [ingress |-> ingress, egress |-> egress, kv |-> kv]

\* The counterparty chains: the chains a MsgSend is addressed to.
Peers == Chains \ {ChainID}

MsgSends == [Payload : Payloads, DestChain : Peers]

SendHandlers == {ResOK, ResHandlerFail}

Datagrams == [Header : Headers, Payload : Payloads]

MsgReceives ==
    [Datagram : Datagrams, SrcChain : Chains, Proof : [Sequence : 0..MaxSeq]]

\* The sets of keys a handler writes through the context it is given: keys
\* of its own state, keys of the channel, or both.
CacheWrites ==
    {[k \in S |-> Written] :
        S \in {{}, {"k1"}, {"k1", "k2"}, {QueueKey}, {SeqKey},
               {"k1", QueueKey, SeqKey}}}

\* The write sets that keep to the handler's own state.
ModuleWrites == {w \in CacheWrites : DOMAIN w \subseteq Keys}

Receipts == {Nil, [ty |-> ReceiptType, body |-> 1]}

\* The handlers that write their own state only.
ReceiveHandlers ==
    [receipt : Receipts, res : {ResOK, ResHandlerFail}, writes : ModuleWrites]

\* Handlers of a packet that may write the channel's keys as well.
ViewHandlers ==
    [receipt : Receipts, res : {ResOK, ResHandlerFail}, writes : CacheWrites]

\* The handler of a call that never invokes it.
NoHandler == [receipt |-> Nil, res |-> ResOK, writes |-> <<>>]

\* Number of datagrams held in all egress queues together.
QueueTotal(st) ==
    Cardinality(UNION {{c} \X (1..Len(st.egress[c])) : c \in Channels})

\* Sum of all ingress sequences.
SeqTotal(st) ==
    Cardinality(UNION {{c} \X (1..st.ingress[c]) : c \in Channels})

WithinBounds(st) ==
    /\ QueueTotal(st) <= MaxQueue
    /\ SeqTotal(st) <= MaxSeq

Install(out) ==
    /\ ingress' = out.st.ingress
    /\ egress' = out.st.egress
    /\ kv' = out.st.kv
    /\ UNCHANGED connEst
    /\ UNCHANGED gasVars

(***************************************************************************)
(* What the call record notes about the input of a Receive, taken from the *)
(* message and the state before the call.                                  *)
(***************************************************************************)
\* The channel a Receive of msg is about.
ChannelOf(msg) == <<msg.Datagram.Payload.ty, msg.SrcChain>>

ConnOK(msg) == connEst[msg.SrcChain]
ChainOK(msg) == ChainID = msg.Datagram.Header.DestChain
SeqOK(msg) == msg.Proof.Sequence = ingress[ChannelOf(msg)]

\* The history after a Receive of msg that gave out: the call's
\* Proof.Sequence is noted on its channel when the handler was invoked.
Dispatched(out, msg) ==
    IF out.invoked
    THEN [dispatched EXCEPT ![ChannelOf(msg)] = Append(@, msg.Proof.Sequence)]
    ELSE dispatched

\* call.ty is the type of the datagram handed to the ReceiveHandler.
NoType == "none"

NoPre == [conn |-> TRUE, chain |-> TRUE, seq |-> TRUE]

\* The handler behaviours that can be told apart in a Receive of msg: all of
\* them when the call invokes the handler, none otherwise.
HandlersFor(msg) ==
    IF Receive(NoHandler, connEst, RelayState, msg).invoked
    THEN ReceiveHandlers
    ELSE {NoHandler}

\* No datagram received or queued yet; the connection to each counterparty
\* chain is established or not (the chain holds no connection to itself).
RelayInit ==
    /\ ingress = [c \in Channels |-> 0]
    /\ egress = [c \in Channels |-> <<>>]
    /\ connEst \in {c \in [Chains -> BOOLEAN] : ~c[ChainID]}
    /\ kv = [k \in Keys |-> NoVal]
    /\ call = [op |-> "none", res |-> ResOK, invoked |-> FALSE,
               ty |-> NoType, h |-> NoHandler, pre |-> NoPre]
    /\ dispatched = [c \in Channels |-> <<>>]

SendStep ==
    \E msg \in MsgSends, h \in SendHandlers :
        LET out == Send(h, RelayState, msg)
        IN  /\ WithinBounds(out.st)
            /\ Install(out)
            /\ dispatched' = dispatched
            /\ call' = [op |-> "Send", res |-> out.res,
                        invoked |-> out.invoked, ty |-> NoType,
                        h |-> NoHandler, pre |-> NoPre]

ReceiveStep ==
    \E msg \in MsgReceives :
      \E h \in HandlersFor(msg) :
        LET out == Receive(h, connEst, RelayState, msg)
        IN  /\ WithinBounds(out.st)
            /\ Install(out)
            /\ dispatched' = Dispatched(out, msg)
            /\ call' = [op |-> "Receive", res |-> out.res,
                        invoked |-> out.invoked,
                        ty |-> IF out.invoked
                               THEN DatagramType(msg.Datagram.Payload)
                               ELSE NoType,
                        h |-> h,
                        pre |-> [conn |-> ConnOK(msg), chain |-> ChainOK(msg),
                                 seq |-> SeqOK(msg)]]

\* The handler behaviours of a Receive of msg when a packet's handler may
\* write the channel's keys through its context.
ViewHandlersFor(msg) ==
    IF /\ Receive(NoHandler, connEst, RelayState, msg).invoked
       /\ DatagramType(msg.Datagram.Payload) = PacketType
    THEN ViewHandlers
    ELSE HandlersFor(msg)

\* A Receive with any of these handlers; nops counts the calls made.
ReceiveViewStep ==
    \E msg \in MsgReceives :
      \E h \in ViewHandlersFor(msg) :
        LET out == Receive(h, connEst, RelayState, msg)
        IN  /\ nops < MaxTx
            /\ WithinBounds(out.st)
            /\ ingress' = out.st.ingress
            /\ egress' = out.st.egress
            /\ kv' = out.st.kv
            /\ nops' = nops + 1
            /\ UNCHANGED <<connEst, gmem, gmeter, giter, gcall, script>>
            /\ dispatched' = Dispatched(out, msg)
            /\ call' = [op |-> "Receive", res |-> out.res,
                        invoked |-> out.invoked,
                        ty |-> IF out.invoked
                               THEN DatagramType(msg.Datagram.Payload)
                               ELSE NoType,
                        h |-> h,
                        pre |-> [conn |-> ConnOK(msg), chain |-> ChainOK(msg),
                                 seq |-> SeqOK(msg)]]

(***************************************************************************)
(* The gas store as a state machine: every step is one call on the store   *)
(* or on its iterator.                                                     *)
(***************************************************************************)
GasState == [mem |-> gmem, meter |-> gmeter, iter |-> giter]

\* The limits the tests give their meters.
GasLimits == {0, 200, 1000}

EmptyStore == [k \in StoreKeys |-> NilBytes]

\* TestGasKVStoreBasic: the calls it makes on a fresh store with a meter of
\* limit 1000, in order.
BasicScript ==
    << [op |-> "Get", key |-> keyFmt(1), value |-> NilBytes],
       [op |-> "Set", key |-> keyFmt(1), value |-> valFmt(1)],
       [op |-> "Get", key |-> keyFmt(1), value |-> NilBytes],
       [op |-> "Delete", key |-> keyFmt(1), value |-> NilBytes],
       [op |-> "Get", key |-> keyFmt(1), value |-> NilBytes] >>

OffScript == 0 - 1

\* script counts the calls of BasicScript made so far, when the run is a
\* prefix of it from a fresh store and meter; OffScript otherwise.
ScriptAfter(op, key, value) ==
    IF /\ script # OffScript
       /\ script < Len(BasicScript)
       /\ BasicScript[script + 1] = [op |-> op, key |-> key, value |-> value]
    THEN script + 1
    ELSE OffScript

GasInstall(op, key, value, out) ==
    /\ gmem' = out.mem
    /\ gmeter' = out.meter
    /\ giter' = out.iter
    /\ gcall' = [op |-> op, key |-> key, value |-> value, ret |-> out.ret,
                 end |-> out.end]
    /\ nops' = nops + 1
    /\ script' = ScriptAfter(op, key, value)
    /\ UNCHANGED relayVars

GasInitWith(mems, limits) ==
    /\ gmem \in mems
    /\ \E limit \in limits : gmeter = NewGasMeter(limit)
    /\ giter = NoIter
    /\ gcall = [op |-> "none", key |-> NilBytes, value |-> NilBytes,
                ret |-> NilBytes, end |-> Returned]
    /\ nops = 0
    /\ script = IF gmem = EmptyStore /\ gmeter = NewGasMeter(1000)
                THEN 0 ELSE OffScript

GetStep ==
    \E key \in StoreKeys :
        /\ nops < MaxOps
        /\ GasInstall("Get", key, NilBytes, GasGet(GasState, key))

\* Set and Delete are not called while an iterator is open on the store.
SetStep ==
    \E key \in StoreKeys, value \in StoreVals :
        /\ nops < MaxOps
        /\ ~giter.open
        /\ GasInstall("Set", key, value, GasSet(GasState, key, value))

DeleteStep ==
    \E key \in StoreKeys :
        /\ nops < MaxOps
        /\ ~giter.open
        /\ GasInstall("Delete", key, NilBytes, GasDelete(GasState, key))

HasStep ==
    \E key \in StoreKeys :
        /\ nops < MaxOps
        /\ GasInstall("Has", key, NilBytes, GasHas(GasState, key))

IteratorStep ==
    /\ nops < MaxOps
    /\ ~giter.open
    /\ GasInstall("Iterator", NilBytes, NilBytes, GasIterator(GasState))

NextStep ==
    /\ nops < MaxOps
    /\ giter.open
    /\ GasInstall("Next", NilBytes, NilBytes, IterNext(GasState))

KeyStep ==
    /\ nops < MaxOps
    /\ giter.open
    /\ GasInstall("Key", NilBytes, NilBytes, IterKey(GasState))

ValueStep ==
    /\ nops < MaxOps
    /\ giter.open
    /\ GasInstall("Value", NilBytes, NilBytes, IterValue(GasState))

ValidStep ==
    /\ nops < MaxOps
    /\ giter.open
    /\ GasInstall("Valid", NilBytes, NilBytes,
                  GasRet(gmem, gmeter, giter, IterValid(giter), Returned))

CloseStep ==
    /\ nops < MaxOps
    /\ giter.open
    /\ GasInstall("Close", NilBytes, NilBytes, IterClose(GasState))

(***************************************************************************)
(* The relay on a metered store as a state machine: every step is one      *)
(* transaction, a Send or a Receive run with a fresh GasMeter of some       *)
(* limit; gmeter is the meter as the transaction left it.                   *)
(***************************************************************************)
\* Limits, in accesses, that run out at the first access of a call (the
\* push of a Send), at the ingress sequence write, at the first handler
\* write or at the receipt push after none, and at the receipt push after
\* two handler writes; and one that pays for every call.
TxGasLimits == {0, 2, 3, 5, 8}

\* The state a transaction leaves: what it wrote when it completed, the
\* state before it when it aborted out of gas.
InstallGas(out) ==
    /\ ingress' = out.st.ingress
    /\ egress' = out.st.egress
    /\ kv' = out.st.kv
    /\ gmeter' = out.meter
    /\ nops' = nops + 1
    /\ UNCHANGED <<connEst, gmem, giter, gcall, script>>

SendGasStep ==
    \E msg \in MsgSends, h \in SendHandlers, limit \in TxGasLimits :
        LET out == SendGas(h, RelayState, NewGasMeter(limit), msg)
        IN  /\ nops < MaxTx
            /\ WithinBounds(out.st)
            /\ InstallGas(out)
            /\ dispatched' = dispatched
            /\ call' = [op |-> "Send", res |-> out.res,
                        invoked |-> out.invoked, ty |-> NoType,
                        h |-> NoHandler, pre |-> NoPre]

ReceiveGasStep ==
    \E msg \in MsgReceives, limit \in TxGasLimits :
      \E h \in HandlersFor(msg) :
        LET out == ReceiveGas(h, connEst, RelayState, NewGasMeter(limit), msg)
        IN  /\ nops < MaxTx
            /\ WithinBounds(out.st)
            /\ InstallGas(out)
            /\ dispatched' = Dispatched(out, msg)
            /\ call' = [op |-> "Receive", res |-> out.res,
                        invoked |-> out.invoked,
                        ty |-> IF out.invoked
                               THEN DatagramType(msg.Datagram.Payload)
                               ELSE NoType,
                        h |-> h,
                        pre |-> [conn |-> ConnOK(msg), chain |-> ChainOK(msg),
                                 seq |-> SeqOK(msg)]]

(***************************************************************************)
(* Specifications.  Spec runs the relay over an untouched gas store;       *)
(* SpecGas runs the gas store, opened with a meter of one of the tests'    *)
(* limits over a store of any content, beside an idle relay; SpecRelayGas  *)
(* runs the relay in metered transactions; SpecView runs Receive with      *)
(* packet handlers that write the channel's keys through their context.    *)
(***************************************************************************)
Init == RelayInit /\ GasInitWith({EmptyStore}, {1000})

Next == SendStep \/ ReceiveStep

Spec == Init /\ [][Next]_vars

InitGas ==
    /\ RelayInit
    /\ \A c \in Chains : ~connEst[c]
    /\ GasInitWith([StoreKeys -> StoreVals \cup {NilBytes}], GasLimits)

NextGas ==
    \/ GetStep
    \/ SetStep
    \/ DeleteStep
    \/ HasStep
    \/ IteratorStep
    \/ NextStep
    \/ KeyStep
    \/ ValueStep
    \/ ValidStep
    \/ CloseStep

SpecGas == InitGas /\ [][NextGas]_vars

\* The relay on a metered store.
NextRelayGas == SendGasStep \/ ReceiveGasStep

SpecRelayGas == Init /\ [][NextRelayGas]_vars

\* The relay with packet handlers that write the channel's keys.
NextView == ReceiveViewStep

SpecView == Init /\ [][NextView]_vars

(***************************************************************************)
(* Vocabulary of the properties.                                           *)
(***************************************************************************)
\* Every Receive call that can be made in the current state, as <<msg, h>>.
ReceiveCalls ==
    UNION {{<<msg, h>> : h \in HandlersFor(msg)} : msg \in MsgReceives}

SendCalls == MsgSends \X SendHandlers

\* C1: over any sequence of Send and Receive calls no channel's ingress
\* sequence ever decreases, and a Receive that passes the three preconditions
\* (connection established, chain match, sequence match) leaves its channel's
\* ingress sequence exactly 1 higher, whatever the handler returns.
IngressAdvance ==
    /\ [][\A c \in Channels : ingress'[c] >= ingress[c]]_vars
    /\ [](\A mh \in ReceiveCalls :
            LET msg == mh[1]
                out == Receive(mh[2], connEst, RelayState, msg)
            IN  (ConnOK(msg) /\ ChainOK(msg) /\ SeqOK(msg)) =>
                    out.st.ingress[ChannelOf(msg)]
                        = ingress[ChannelOf(msg)] + 1)

\* C1 witness: a Receive passed the preconditions, its handler failed, and
\* the channel's ingress sequence stands advanced.
IngressAdvanceWitness ==
    /\ call.op = "Receive"
    /\ call.res = ResHandlerFail
    /\ \E c \in Channels : ingress[c] = 2

\* The result the precondition checks of a Receive give when at least one
\* of them fails, by the order connection, chain, sequence.
FirstFailure(pre) ==
    IF ~pre.conn THEN ErrConnNotEstablished
    ELSE IF ~pre.chain THEN ErrChainMismatch
    ELSE ErrInvalidSequence

\* C2 as stated: every Receive whose Proof.Sequence differs from the current
\* ingress sequence fails with InvalidSequence, without invoking the handler
\* and without changing the ingress sequences or the egress queues.
SeqMismatchIsInvalidSequence ==
    [][(call'.op = "Receive" /\ ~call'.pre.seq) =>
          /\ call'.res = ErrInvalidSequence
          /\ ~call'.invoked
          /\ UNCHANGED <<ingress, egress>>]_vars

\* C2 amended: every Receive whose Proof.Sequence differs from the current
\* ingress sequence fails without invoking the handler and without changing
\* the ingress sequences or the egress queues; the result is InvalidSequence
\* when the connection is established and the chain matches, and otherwise
\* the result of the earlier failing check.
SeqMismatchFails ==
    [][(call'.op = "Receive" /\ ~call'.pre.seq) =>
          /\ call'.res \in {ErrConnNotEstablished, ErrChainMismatch,
                            ErrInvalidSequence}
          /\ (call'.pre.conn /\ call'.pre.chain) <=>
                call'.res = ErrInvalidSequence
          /\ ~call'.invoked
          /\ UNCHANGED <<ingress, egress>>]_vars

\* C2 witness: a Receive on an established connection with the right chain
\* and a wrong sequence number returned InvalidSequence, on a channel whose
\* ingress sequence had already advanced.
SeqMismatchWitness ==
    /\ call.op = "Receive"
    /\ call.pre = [conn |-> TRUE, chain |-> TRUE, seq |-> FALSE]
    /\ call.res = ErrInvalidSequence
    /\ \E c \in Channels : ingress[c] > 0

\* C3: a Receive with a failing precondition returns the result of the first
\* failing one in the order connection, chain, sequence; the three results
\* differ from each other; the handler is not invoked and neither the
\* ingress sequences, the egress queues nor the handler's state change.
PreconditionOrder ==
    /\ [][(call'.op = "Receive" /\ call'.pre # NoPre) =>
            /\ call'.res = FirstFailure(call'.pre)
            /\ ~call'.invoked
            /\ UNCHANGED <<ingress, egress, kv>>]_vars
    /\ [](Cardinality({ErrConnNotEstablished, ErrChainMismatch,
                       ErrInvalidSequence}) = 3)

\* C3 witness: all three preconditions failed at once and the result was
\* ConnNotEstablished.
PreconditionOrderWitness ==
    /\ call.op = "Receive"
    /\ call.pre = [conn |-> FALSE, chain |-> FALSE, seq |-> FALSE]
    /\ call.res = ErrConnNotEstablished

\* The egress queues are those of q with the datagram d appended at the tail
\* of the queue of channel c, and nothing else changed.
Appended(q, c, d) == [q EXCEPT ![c] = Append(@, d)]

\* C4: a Send whose handler fails returns the handler's result and changes no
\* egress queue; a Send whose handler succeeds appends exactly one datagram,
\* with Header{SrcChain: local chain, DestChain: msg.DestChain} and the
\* message's payload, at the tail of the queue of channel
\* (Payload.DatagramType(), msg.DestChain); in both cases no ingress
\* sequence and no connection flag changes.
SendEffect ==
    /\ [](\A mh \in SendCalls :
            LET msg == mh[1]
                h == mh[2]
                out == Send(h, RelayState, msg)
                d == [Header |-> [SrcChain |-> ChainID,
                                  DestChain |-> msg.DestChain],
                      Payload |-> msg.Payload]
            IN  /\ out.res = h
                /\ out.st.ingress = ingress
                /\ out.st.egress =
                      IF h = ResOK
                      THEN Appended(egress, <<msg.Payload.ty, msg.DestChain>>, d)
                      ELSE egress)
    /\ [][call'.op = "Send" =>
            /\ UNCHANGED <<ingress, connEst>>
            /\ call'.res # ResOK => UNCHANGED egress
            /\ call'.res = ResOK =>
                  \E c \in Channels :
                      /\ Len(egress'[c]) = Len(egress[c]) + 1
                      /\ egress' = Appended(egress, c, egress'[c][Len(egress'[c])])
                      /\ egress'[c][Len(egress'[c])].Header.SrcChain = ChainID
                      /\ egress'[c][Len(egress'[c])].Header.DestChain = c[2]
                      /\ egress'[c][Len(egress'[c])].Payload.ty = c[1]]_vars

\* C4 witness: a successful Send appended behind a datagram already queued.
SendEffectWitness ==
    /\ call.op = "Send"
    /\ call.res = ResOK
    /\ \E c \in Channels : Len(egress[c]) = 2

\* C5: a receivePacket whose handler returns a receipt and a failure returns
\* the failure, appends exactly one datagram (carrying the receipt) to one
\* egress queue, and leaves none of the handler's writes in the outer state.
FailedPacketKeepsReceiptOnly ==
    [][(/\ call'.op = "Receive" /\ call'.invoked
        /\ call'.ty = PacketType
        /\ call'.h.res # ResOK
        /\ call'.h.receipt # Nil) =>
          /\ call'.res = ResHandlerFail
          /\ kv' = kv
          /\ \E c \in Channels :
                /\ Len(egress'[c]) = Len(egress[c]) + 1
                /\ egress' = Appended(egress, c, egress'[c][Len(egress'[c])])
                /\ egress'[c][Len(egress'[c])].Payload = call'.h.receipt]_vars

\* C5 witness: a packet handler wrote two keys, returned a receipt and
\* failed; the receipt is queued and the keys are unwritten.
FailedPacketWitness ==
    /\ call.op = "Receive" /\ call.invoked
    /\ call.ty = PacketType
    /\ call.res = ResHandlerFail
    /\ call.h.receipt # Nil
    /\ DOMAIN call.h.writes = Keys
    /\ \A k \in Keys : kv[k] = NoVal
    /\ \E c \in Channels : egress[c] # <<>>

\* C6: a receivePacket whose handler succeeds leaves every write of the
\* handler in the outer state (and every key it did not write as it was);
\* whatever the handler returns, the outer state holds all of its writes or
\* is unchanged, never a part of them.
PacketCommitAllOrNothing ==
    [][(call'.op = "Receive" /\ call'.invoked /\ call'.ty = PacketType) =>
          LET w == call'.h.writes
              all == [k \in Keys |-> IF k \in DOMAIN w THEN w[k] ELSE kv[k]]
          IN  /\ call'.h.res = ResOK => (call'.res = ResOK /\ kv' = all)
              /\ kv' \in {kv, all}]_vars

\* C6 witness: a packet handler wrote two keys and succeeded, and both
\* writes are in the outer state.
PacketCommitWitness ==
    /\ call.op = "Receive" /\ call.invoked
    /\ call.ty = PacketType
    /\ call.res = ResOK
    /\ DOMAIN call.h.writes = Keys
    /\ \A k \in Keys : kv[k] = call.h.writes[k]

\* C7: a receiveReceipt whose handler fails or returns a receipt ends in a
\* panic, never in a returned failure result; and no receiveReceipt, however
\* it ends, appends to an egress queue.
ReceiptHandlerMustNotFail ==
    [][(call'.op = "Receive" /\ call'.invoked /\ call'.ty = ReceiptType) =>
          /\ (call'.h.res # ResOK \/ call'.h.receipt # Nil) =>
                call'.res = Panic
          /\ call'.res \in {ResOK, Panic}
          /\ egress' = egress]_vars

\* C7 witness: a receipt handler succeeded but returned a receipt, and the
\* call panicked.
ReceiptHandlerWitness ==
    /\ call.op = "Receive" /\ call.invoked
    /\ call.ty = ReceiptType
    /\ call.h.res = ResOK
    /\ call.h.receipt # Nil
    /\ call.res = Panic

\* C8: a gas store call whose charge takes the meter above its limit ends in
\* the out-of-gas panic and leaves the underlying store as it was (no call
\* that panics changes the store); with a limit of 0 every Set panics and
\* stores nothing.
OutOfGasBeforeMutation ==
    /\ [][(gmeter'.consumed > gmeter.consumed
           /\ gmeter'.consumed > gmeter'.limit) =>
              (gcall'.end = PanicOutOfGas /\ gmem' = gmem)]_vars
    /\ [][gcall'.end # Returned => gmem' = gmem]_vars
    /\ [][(gcall'.op = "Set" /\ gmeter.limit = 0) =>
              (gcall'.end = PanicOutOfGas /\ gmem' = gmem)]_vars

\* C8 witness: on a meter of limit 0 the first call, a Set of a key that is
\* not stored, panicked out of gas and the key is still not stored.
OutOfGasWitness ==
    /\ nops = 1
    /\ gmeter.limit = 0
    /\ gcall.op = "Set"
    /\ gcall.end = PanicOutOfGas
    /\ gmem[gcall.key] = NilBytes

\* The charge C9 states for a call, from its kind, its arguments and what it
\* returned.
StatedCharge(c) ==
    CASE c.op = "Get" -> ReadCostFlat + ReadCostPerByte * Len(c.ret)
      [] c.op = "Set" ->
            WriteCostFlat + WriteCostPerByte * (Len(c.key) + Len(c.value))
      [] c.op = "Delete" -> DeleteCost

Stored == {k \in StoreKeys : gmem[k] # NilBytes}

Advances == giter.pos - 1

PastLast == giter.open /\ Advances >= Cardinality(Stored)

\* C10: an iterator over the whole range that has been advanced i times and
\* is not past the last element yields the stored key with exactly i stored
\* keys below it, and that key's stored value: the pairs come in ascending
\* key order, each once.  Valid() is false exactly once the iterator is past
\* the last element, and there Value() and Next() panic.
IteratorAscending ==
    /\ []((giter.open /\ ~PastLast) =>
            LET k == IterKey(GasState)
                v == IterValue(GasState)
            IN  /\ k.end = Returned /\ v.end = Returned
                /\ k.ret \in Stored
                /\ Cardinality({o \in Stored : BytesLess(o, k.ret)}) = Advances
                /\ v.ret = gmem[k.ret])
    /\ [][gcall'.op = "Valid" => gcall'.ret = ~PastLast]_vars
    /\ [][(PastLast /\ gcall'.op \in {"Value", "Next"}) =>
              gcall'.end = PanicInvalidIterator]_vars

\* C10 witness: an iterator over two stored pairs was advanced past the
\* second and a further Next panicked.
IteratorWitness ==
    /\ Cardinality(Stored) = 2
    /\ PastLast
    /\ gcall.op = "Next"
    /\ gcall.end = PanicInvalidIterator

\* The amounts a single ConsumeGas is asked for by the store: the flat costs,
\* the per-byte cost of reading a 13-byte value and of writing it under an
\* 11-byte key, and nothing (a Get that misses).
GasAmounts ==
    {0, HasCost, ReadCostPerByte * Len(valFmt(1)), IterNextCostFlat,
     WriteCostPerByte * (Len(keyFmt(1)) + Len(valFmt(1)))}

\* C11: a ConsumeGas never lowers the consumed total and never changes the
\* limit; one whose amount takes the total above the limit leaves the meter
\* out of gas (the call making it ends in the out-of-gas panic), and any
\* other leaves consumed <= limit with exactly the amount added.  Hence as
\* long as no call has panicked out of gas, consumed <= limit.
GasMeterInvariant ==
    /\ [](\A amount \in GasAmounts :
            LET m1 == ConsumeGas(gmeter, amount)
            IN  /\ m1.consumed >= gmeter.consumed
                /\ m1.limit = gmeter.limit
                /\ (gmeter.consumed + amount > gmeter.limit) =>
                        (OutOfGas(m1) /\ m1.consumed > m1.limit)
                /\ (gmeter.consumed + amount <= gmeter.limit) =>
                        (~OutOfGas(m1) /\ m1.consumed = gmeter.consumed + amount))
    /\ [][/\ gmeter'.consumed >= gmeter.consumed
          /\ gmeter'.limit = gmeter.limit]_vars
    /\ [][(gmeter.consumed <= gmeter.limit /\ gcall'.end # PanicOutOfGas) =>
              gmeter'.consumed <= gmeter'.limit]_vars
    /\ [](nops = 0 => gmeter.consumed <= gmeter.limit)

\* C11 witness: a meter of limit 200 took charges within its limit over
\* several calls, and then a call's charge exceeded the limit and the call
\* panicked out of gas.
GasMeterWitness ==
    /\ gmeter.limit = 200
    /\ nops >= 3
    /\ gcall.end = PanicOutOfGas
    /\ gmeter.consumed > gmeter.limit

\* The datagrams held in the egress queues.
Queued == UNION {{egress[c][i] : i \in 1..Len(egress[c])} : c \in Channels}

\* C12: for every Header h, h.InverseDirection() has h's DestChain as its
\* SrcChain and h's SrcChain as its DestChain, and inverting it again gives
\* h back; so inverting the header of a queued receipt gives back the header
\* of the packet it answers.
InverseDirectionInvolution ==
    \A h \in Headers \cup {d.Header : d \in Queued} :
        LET i == InverseDirection(h)
        IN  /\ i.SrcChain = h.DestChain
            /\ i.DestChain = h.SrcChain
            /\ InverseDirection(i) = h

\* C12 witness: receivePacket inverted the header of a packet sent from
\* another chain to this one, and the receipt is queued under the inverted
\* header, whose two chains differ.
InverseDirectionWitness ==
    /\ call.op = "Receive" /\ call.invoked
    /\ call.ty = PacketType
    /\ call.h.receipt # Nil
    /\ \E d \in Queued :
          /\ d.Payload = call.h.receipt
          /\ d.Header.SrcChain # d.Header.DestChain
          /\ InverseDirection(d.Header).DestChain = ChainID

\* The results a call can report to its caller, and the panic of a receipt
\* handler's contract violation.
ReportableResults ==
    {ResOK, ResHandlerFail, ErrConnNotEstablished, ErrChainMismatch,
     ErrInvalidSequence, ErrUnknownDatagramType}

Accepted(msg) == ConnOK(msg) /\ ChainOK(msg) /\ SeqOK(msg)

\* C14: a receivePacket (a Receive of a Packet that passes the
\* preconditions) whose handler returns a receipt appends exactly one
\* datagram to the egress queue of its channel, with the receipt as Payload
\* and the inbound Header with SrcChain and DestChain exchanged, whether the
\* handler succeeds or fails; one whose handler returns none changes no
\* egress queue.
ReceiptPushedIffReturned ==
    \A msg \in MsgReceives :
        (Accepted(msg) /\ DatagramType(msg.Datagram.Payload) = PacketType) =>
            \A h \in ReceiveHandlers :
                LET data == msg.Datagram
                    out == Receive(h, connEst, RelayState, msg)
                    d == [Header |-> [SrcChain |-> data.Header.DestChain,
                                      DestChain |-> data.Header.SrcChain],
                          Payload |-> h.receipt]
                IN  out.st.egress =
                        IF h.receipt # Nil
                        THEN Appended(egress, ChannelOf(msg), d)
                        ELSE egress

\* C14 witness: a packet handler succeeded and returned a receipt, and the
\* receipt stands at the tail of a queue, behind a datagram queued before,
\* under a header from this chain to another.
ReceiptPushedWitness ==
    /\ call.op = "Receive" /\ call.invoked
    /\ call.ty = PacketType
    /\ call.res = ResOK
    /\ call.h.receipt # Nil
    /\ \E c \in Channels :
          /\ Len(egress[c]) = 2
          /\ egress[c][2].Payload = call.h.receipt
          /\ egress[c][2].Header = [SrcChain |-> ChainID, DestChain |-> "B"]

\* C15: a Receive of a datagram that is neither a Packet nor a Receipt and
\* passes the three preconditions returns UnknownDatagramType, whatever the
\* handler would do it is not invoked, nothing is appended to an egress
\* queue and the handler's state is untouched, and the ingress sequence of
\* the channel is one higher than before.
UnknownTypeAdvances ==
    \A msg \in MsgReceives :
        (/\ Accepted(msg)
         /\ DatagramType(msg.Datagram.Payload) \notin
                {PacketType, ReceiptType}) =>
            \A h \in ReceiveHandlers :
                LET out == Receive(h, connEst, RelayState, msg)
                IN  /\ out.res = ErrUnknownDatagramType
                    /\ ~out.invoked
                    /\ out.st.egress = egress
                    /\ out.st.kv = kv
                    /\ out.st.ingress =
                          [ingress EXCEPT ![ChannelOf(msg)] = @ + 1]

\* C15 witness: two datagrams of an unknown type were received on one
\* channel; the second returned UnknownDatagramType and the channel's
\* ingress sequence stands at 2.
UnknownTypeWitness ==
    /\ call.op = "Receive"
    /\ call.res = ErrUnknownDatagramType
    /\ ~call.invoked
    /\ \E chain \in Chains : ingress[<<OtherType, chain>>] = 2

\* C16: a Receive leaves the ingress sequence and the egress queue of every
\* channel other than the one it resolved, (type of the payload,
\* msg.SrcChain), as they were; a Send leaves every ingress sequence, and
\* the egress queue of every channel other than (type of the payload,
\* msg.DestChain), as they were.
ChannelsIndependent ==
    /\ \A msg \in MsgReceives :
          \A h \in (IF Accepted(msg) THEN ReceiveHandlers ELSE {NoHandler}) :
              LET out == Receive(h, connEst, RelayState, msg)
              IN  \A c \in Channels \ {ChannelOf(msg)} :
                      /\ out.st.ingress[c] = ingress[c]
                      /\ out.st.egress[c] = egress[c]
    /\ \A mh \in SendCalls :
          LET out == Send(mh[2], RelayState, mh[1])
              r == <<DatagramType(mh[1].Payload), mh[1].DestChain>>
          IN  /\ out.st.ingress = ingress
              /\ \A c \in Channels \ {r} : out.st.egress[c] = egress[c]

\* C16 witness: after a Receive that queued a receipt, two channels have
\* received a datagram each and two channels hold a datagram each.
ChannelsIndependentWitness ==
    /\ call.op = "Receive" /\ call.invoked
    /\ call.h.receipt # Nil
    /\ Cardinality({c \in Channels : ingress[c] = 1}) = 2
    /\ Cardinality({c \in Channels : Len(egress[c]) = 1}) = 2

\* The sequence numbers 0, 1, ..., n - 1.
Consecutive(n) == [i \in 1..n |-> i - 1]

\* C17: on every channel the Proof.Sequence values of the Receive calls that
\* invoked the handler are, in call order, 0, 1, 2, ... up to the channel's
\* ingress sequence, without gap or repetition (a channel of a third type
\* invokes no handler); and a Receive presenting a sequence number already
\* dispatched on its channel invokes no handler and changes nothing,
\* whatever the handler would return and however the first dispatch ended.
ExactlyOnceInOrder ==
    /\ \A c \in Channels :
          dispatched[c] = IF c[1] \in {PacketType, ReceiptType}
                          THEN Consecutive(ingress[c])
                          ELSE <<>>
    /\ \A msg \in MsgReceives :
          LET seen == dispatched[ChannelOf(msg)]
          IN  (\E i \in 1..Len(seen) : seen[i] = msg.Proof.Sequence) =>
                  \A h \in ReceiveHandlers :
                      LET out == Receive(h, connEst, RelayState, msg)
                      IN  ~out.invoked /\ out.st = RelayState

\* C17 witness: a channel dispatched sequence numbers 0 and 1 to the
\* handler, the handler failed on the last, and the ingress sequence stands
\* at 2.
ExactlyOnceWitness ==
    /\ call.op = "Receive" /\ call.invoked
    /\ call.res = ResHandlerFail
    /\ \E c \in Channels : dispatched[c] = <<0, 1>> /\ ingress[c] = 2

\* C18 as stated: every datagram held in the egress queue of channel
\* (ty, chain) has Header.DestChain = chain and a Payload of type ty.
QueuedMatchesChannel ==
    \A c \in Channels :
        \A i \in 1..Len(egress[c]) :
            /\ egress[c][i].Header.DestChain = c[2]
            /\ DatagramType(egress[c][i].Payload) = c[1]

\* C19: every datagram held in an egress queue has the local chain ID as
\* its Header.SrcChain, whether Send queued it or receivePacket queued it as
\* a receipt.
QueuedFromLocalChain ==
    \A d \in Queued : d.Header.SrcChain = ChainID

\* C19 witness: the queues hold a datagram queued by Send and a receipt
\* queued by the last call, a Receive of a packet.
QueuedFromLocalWitness ==
    /\ call.op = "Receive" /\ call.invoked
    /\ call.ty = PacketType
    /\ call.h.receipt # Nil
    /\ \E d \in Queued : DatagramType(d.Payload) = PacketType
    /\ \E d \in Queued : d.Payload = call.h.receipt

====
